---------------------------- MODULE Spec2Model ----------------------------
(***************************************************************************)
(* A model of the Game Boy CPU core of pyGameBoyEmulator: the register     *)
(* file, the operand table built by CPU.make_parameter_table, the flag     *)
(* helpers and the instruction bodies of src/cpu.py.                       *)
(*                                                                         *)
(* Python values are records tagged by their type (field t); a raised      *)
(* exception is the err field of an outcome record.                        *)
(***************************************************************************)
EXTENDS Integers, Sequences, FiniteSets, TLC

VARIABLES reg, mem, last, opcodes, prefixed, state

vars == <<reg, mem, last, opcodes, prefixed, state>>

---------------------------------------------------------------------------
(* Program constants (src/cpu.py:12-15).                                   *)
ZERO_MASK == 128
SUB_MASK == 64
HALFC_MASK == 32
CARRY_MASK == 16

---------------------------------------------------------------------------
(* Python integers: unbounded, two's complement bit operations.            *)

RECURSIVE Pow2(_)
Pow2(n) == IF n = 0 THEN 1 ELSE 2 * Pow2(n - 1)

Powers == {Pow2(n) : n \in 0..24}

RECURSIVE BitAndBits(_, _)
BitAndBits(a, b) ==
    IF a = 0 \/ b = 0 THEN 0
    ELSE IF a = -1 THEN b
    ELSE IF b = -1 THEN a
    ELSE 2 * BitAndBits(a \div 2, b \div 2) + (a % 2) * (b % 2)

(* a & b.  The masks the program uses are settled without recursion: a     *)
(* low mask 2^k - 1, a single bit 2^k, and the complement of a single bit. *)
BitAnd(a, b) ==
    IF (b + 1) \in Powers THEN a % (b + 1)
    ELSE IF b \in Powers THEN b * ((a \div b) % 2)
    ELSE IF (-b - 1) \in Powers
    THEN a - (-b - 1) * ((a \div (-b - 1)) % 2)
    ELSE BitAndBits(a, b)

BitOr(a, b) == a + b - BitAnd(a, b)

BitNot(a) == -a - 1

ShiftLeft(a, n) == a * Pow2(n)
ShiftRight(a, n) == a \div Pow2(n)

---------------------------------------------------------------------------
(* Python values.                                                          *)

IntV(n) == [t |-> "int", v |-> n]
BoolV(b) == [t |-> "bool", v |-> IF b THEN 1 ELSE 0]
NoneV == [t |-> "None", v |-> 0]

IsNum(x) == x.t \in {"int", "bool"}
Truthy(x) == IF x.t \in {"int", "bool"} THEN x.v # 0 ELSE x.t # "None"

(* The outcome of a call: the exception raised ("" when none), the value   *)
(* returned, and the register file and memory it leaves.                   *)
Ok(x, r, m) == [err |-> "", ret |-> x, reg |-> r, mem |-> m]
Raise(e, r, m) == [err |-> e, ret |-> NoneV, reg |-> r, mem |-> m]

Range(s) == {s[i] : i \in 1..Len(s)}

---------------------------------------------------------------------------
(* The register file.                                                      *)

reg_ids == <<"A", "F", "B", "C", "D", "E", "H", "L">>
nonsplit_addr_reg_ids == <<"PC", "SP">>
split_addr_reg_ids == <<"AF", "BC", "DE", "HL">>
direct_access_reg_ids == nonsplit_addr_reg_ids \o reg_ids
all_addr_reg_ids == nonsplit_addr_reg_ids \o split_addr_reg_ids

(* arid[0] and arid[1] of a split register id.                             *)
HighOf(arid) == CASE arid = "AF" -> "A" [] arid = "BC" -> "B"
                  [] arid = "DE" -> "D" [] arid = "HL" -> "H"
LowOf(arid) == CASE arid = "AF" -> "F" [] arid = "BC" -> "C"
                 [] arid = "DE" -> "E" [] arid = "HL" -> "L"

(* Order: PC, SP, A, F, B, C, D, E, H, L.                                  *)
default_register_values == <<256, 65534, 1, 176, 0, 19, 0, 216, 1, 77>>

make_registers ==
    [rid \in Range(direct_access_reg_ids) |->
        default_register_values[
            CHOOSE i \in 1..Len(direct_access_reg_ids) :
                direct_access_reg_ids[i] = rid]]

---------------------------------------------------------------------------
(* The Memory collaborator: read(addr: u16) -> u8, write(addr: u16,        *)
(* value: u8).  A Memory is its image (rom: the byte at address a before   *)
(* any write is (rom + 7 * a) mod 256), the cells written since, and what  *)
(* it does with a call outside that contract: a strict Memory raises, a    *)
(* lenient one reads 0 and drops the write.                                *)

Peek(m, a) ==
    IF a \in DOMAIN m.cells THEN m.cells[a] ELSE (m.rom + 7 * a) % 256

IsAddr(x) == IsNum(x) /\ x.v >= 0 /\ x.v <= 65535
IsU8(x) == IsNum(x) /\ x.v >= 0 /\ x.v <= 255

MemRead(m, x, r) ==
    IF IsAddr(x) THEN Ok(IntV(Peek(m, x.v)), r, m)
    ELSE IF m.strict THEN Raise("MemoryError", r, m)
    ELSE Ok(IntV(0), r, m)

MemWrite(m, x, value, r) ==
    IF IsAddr(x) /\ IsU8(value)
    THEN Ok(NoneV, r, [m EXCEPT !.cells = (x.v :> value.v) @@ @])
    ELSE IF m.strict THEN Raise("MemoryError", r, m)
    ELSE IF IsAddr(x) /\ IsNum(value)
    THEN Ok(NoneV, r, [m EXCEPT !.cells = (x.v :> (value.v % 256)) @@ @])
    ELSE Ok(NoneV, r, m)

(* self.mem[x] and self.mem[x] = value: the same contract, by subscript.   *)
MemGetItem(m, x, r) == MemRead(m, x, r)
MemSetItem(m, x, value, r) == MemWrite(m, x, value, r)

---------------------------------------------------------------------------
(* src/byteops.py.                                                         *)
unsigned_16(high, low) == BitAnd(BitOr(ShiftLeft(high, 8), low), 65535)

---------------------------------------------------------------------------
(* Flag helpers; each returns the register file it leaves.                 *)

get_flag(r, mask, negated) == (BitAnd(r["F"], mask) # 0) # negated

set_flag(r, mask, val) ==
    IF val
    THEN [r EXCEPT !["F"] = BitOr(@, mask)]
    ELSE [r EXCEPT !["F"] = BitAnd(@, BitNot(mask))]

zero(r, value) == set_flag(r, ZERO_MASK, value = 0)

(* half_carry that leaves the carry-in out of the sum.                     *)
half_carry_without_carry(r, oper1, oper2, carry, is16bit) ==
    LET mask == IF is16bit THEN 4095 ELSE 15
        check == IF is16bit THEN 4096 ELSE 16
        hc == BitAnd(BitAnd(oper1, mask) + BitAnd(oper2, mask), check)
    IN  set_flag(r, HALFC_MASK, hc # 0)

half_carry(r, oper1, oper2, carry, is16bit) ==
    LET mask == IF is16bit THEN 4095 ELSE 15
        check == IF is16bit THEN 4096 ELSE 16
        hc == BitAnd(BitAnd(oper1, mask) + BitAnd(oper2, mask) + carry, check)
    IN  set_flag(r, HALFC_MASK, hc # 0)

carry(r, value, is16bit) ==
    LET max == IF is16bit THEN 65535 ELSE 255
    IN  set_flag(r, CARRY_MASK, 0 < value /\ value < max)

(* apply_flags from position index on: flags is the instruction's          *)
(* template, index counts from 0.                                          *)
RECURSIVE apply_flags_from(_, _, _)
apply_flags_from(r, flags, index) ==
    IF index >= Len(flags) THEN r
    ELSE LET flag == flags[index + 1]
             bit == ShiftLeft(1, 3 - index)
             r1 == IF flag = "0"
                   THEN [r EXCEPT !["F"] = BitAnd(@, BitNot(bit))]
                   ELSE IF flag = "1"
                   THEN [r EXCEPT !["F"] = BitOr(@, bit)]
                   ELSE r
         IN  apply_flags_from(r1, flags, index + 1)

apply_flags(r, flags) == apply_flags_from(r, flags, 0)

---------------------------------------------------------------------------
(* The operand table: OperandKey -> Operand(get, set).  A getter or setter *)
(* is a partial (the function it names and the arguments bound to it) or   *)
(* None.                                                                   *)

OperandKey(name, immediate, increment, decrement) ==
    [name |-> name, immediate |-> immediate,
     increment |-> increment, decrement |-> decrement]

Key(name) == OperandKey(name, TRUE, FALSE, FALSE)
IndKey(name) == OperandKey(name, FALSE, FALSE, FALSE)
IncKey(name) == OperandKey(name, FALSE, TRUE, FALSE)
DecKey(name) == OperandKey(name, FALSE, FALSE, TRUE)

Operand(get, set) == [t |-> "Operand", get |-> get, set |-> set]

EmptyTable == [k \in {} |-> NoneV]

(* The access table with the two setters of a pair bound the other way     *)
(* round: partial(set_16bit, low.set, high.set).                           *)
make_access_table_swapped(ops) ==
    LET direct ==
            [k \in {Key(rid) : rid \in Range(direct_access_reg_ids)} |->
                Operand([t |-> "partial", fn |-> "reg.get", rid |-> k.name],
                        [t |-> "partial", fn |-> "setitem", rid |-> k.name])]
            @@ ops
        pairs ==
            [k \in {Key(arid) : arid \in Range(split_addr_reg_ids)} |->
                LET high == direct[Key(HighOf(k.name))]
                    low == direct[Key(LowOf(k.name))]
                IN  Operand([t |-> "partial", fn |-> "make_16bit",
                             high |-> high.get, low |-> low.get],
                            [t |-> "partial", fn |-> "set_16bit",
                             set_high |-> low.set, set_low |-> high.set])]
    IN  pairs @@ direct

make_access_table(ops) ==
    LET direct ==
            [k \in {Key(rid) : rid \in Range(direct_access_reg_ids)} |->
                Operand([t |-> "partial", fn |-> "reg.get", rid |-> k.name],
                        [t |-> "partial", fn |-> "setitem", rid |-> k.name])]
            @@ ops
        pairs ==
            [k \in {Key(arid) : arid \in Range(split_addr_reg_ids)} |->
                LET high == direct[Key(HighOf(k.name))]
                    low == direct[Key(LowOf(k.name))]
                IN  Operand([t |-> "partial", fn |-> "make_16bit",
                             high |-> high.get, low |-> low.get],
                            [t |-> "partial", fn |-> "set_16bit",
                             set_high |-> high.set, set_low |-> low.set])]
    IN  pairs @@ direct

make_nudge_table(ops) ==
    [k \in {IncKey(arid) : arid \in Range(all_addr_reg_ids)}
           \cup {DecKey(arid) : arid \in Range(all_addr_reg_ids)} |->
        Operand([t |-> "partial", fn |-> "nudge",
                 get |-> ops[Key(k.name)].get, set |-> ops[Key(k.name)].set,
                 nudge_amt |-> IF k.increment THEN 1 ELSE -1],
                NoneV)]
    @@ ops

make_immediate_table(ops) ==
    LET imm_operand == ops[IncKey("PC")]
        signed_get == [t |-> "partial", fn |-> "signed_read",
                       get |-> imm_operand]
        sp_get == [t |-> "partial", fn |-> "sp_signed_add",
                   get |-> signed_get]
        imm16_get == [t |-> "partial", fn |-> "imm16_read",
                      get |-> imm_operand.get]
    IN  (Key("d8") :> imm_operand) @@ (Key("a8") :> imm_operand)
        @@ (Key("r8") :> Operand(signed_get, NoneV))
        @@ (Key("SP+r8") :> Operand(sp_get, NoneV))
        @@ (Key("d16") :> Operand(imm16_get, NoneV))
        @@ (Key("a16") :> Operand(imm16_get, NoneV))
        @@ ops

fpage_regs == {"C", "a8"}

make_indirect_table(ops) ==
    [k \in {IndKey(id) :
              id \in Range(split_addr_reg_ids) \cup fpage_regs \cup {"a16"}} |->
        LET id_get == ops[Key(k.name)].get
            is_fpage == k.name \in fpage_regs
        IN  Operand([t |-> "partial",
                     fn |-> IF is_fpage THEN "make_fpage_read"
                                        ELSE "make_ind_read",
                     get |-> id_get],
                    [t |-> "partial",
                     fn |-> IF is_fpage THEN "make_fpage_write"
                                        ELSE "make_ind_write",
                     get |-> id_get])]
    @@ ops

make_flag_table(ops) ==
    LET flags == {<<"Z", ZERO_MASK>>, <<"CY", CARRY_MASK>>}
        MaskOf(name) == IF name \in {"Z", "NZ"} THEN ZERO_MASK ELSE CARRY_MASK
    IN  [k \in {Key(f[1]) : f \in flags} |->
            Operand([t |-> "partial", fn |-> "get_flag",
                     mask |-> MaskOf(k.name), negated |-> FALSE], NoneV)]
        @@ [k \in {Key("NZ"), Key("NCY")} |->
            Operand([t |-> "partial", fn |-> "get_flag",
                     mask |-> MaskOf(k.name), negated |-> TRUE], NoneV)]
        @@ ops

make_raw_table(ops) ==
    LET digits == <<"0", "1", "2", "3", "4", "5", "6", "7">>
        hexes == <<"00H", "08H", "10H", "18H", "20H", "28H", "30H", "38H">>
    IN  [k \in {Key(digits[n]) : n \in 1..8} |->
            IntV((CHOOSE n \in 1..8 : digits[n] = k.name) - 1)]
        @@ [k \in {Key(hexes[n]) : n \in 1..8} |->
            IntV(8 * ((CHOOSE n \in 1..8 : hexes[n] = k.name) - 1))]
        @@ ops

make_parameter_table ==
    make_raw_table(make_flag_table(make_indirect_table(
        make_immediate_table(make_nudge_table(make_access_table(EmptyTable))))))

(* self.operands after CPU.__init__.                                       *)
operands == make_parameter_table

---------------------------------------------------------------------------
(* Calling a value f with the positional arguments args, from register     *)
(* file r and memory m.  Calling anything but a partial raises TypeError.  *)

RECURSIVE Call(_, _, _, _)
Call(f, args, r, m) ==
    IF f.t # "partial" THEN Raise("TypeError", r, m)
    ELSE CASE f.fn = "reg.get" -> Ok(IntV(r[f.rid]), r, m)
      [] f.fn = "setitem" -> Ok(NoneV, [r EXCEPT ![f.rid] = args[1].v], m)
      [] f.fn = "make_16bit" ->
            LET h == Call(f.high, <<>>, r, m)
                l == Call(f.low, <<>>, h.reg, h.mem)
            IN  IF h.err # "" THEN h
                ELSE IF l.err # "" THEN l
                ELSE Ok(IntV(BitOr(ShiftLeft(h.ret.v, 8), l.ret.v)),
                        l.reg, l.mem)
      [] f.fn = "set_16bit" ->
            LET value == args[1].v
                h == Call(f.set_high, <<IntV(ShiftRight(value, 8))>>, r, m)
            IN  IF h.err # "" THEN h
                ELSE Call(f.set_low, <<IntV(BitAnd(value, 255))>>,
                          h.reg, h.mem)
      [] f.fn = "nudge" ->
            LET g == Call(f.get, <<>>, r, m)
                s == Call(f.set, <<IntV(g.ret.v + f.nudge_amt)>>,
                          g.reg, g.mem)
            IN  IF g.err # "" THEN g
                ELSE IF s.err # "" THEN s
                ELSE MemRead(s.mem, g.ret, s.reg)
      [] f.fn = "signed_read" ->
            LET g == Call(f.get, <<>>, r, m)
            IN  IF g.err # "" THEN g
                ELSE IF ShiftRight(g.ret.v, 7) # 0
                THEN Ok(IntV(g.ret.v - 255 - 1), g.reg, g.mem)
                ELSE g
      [] f.fn = "sp_signed_add" ->
            (* half_carry(val) lacks its second operand: the call raises  *)
            (* TypeError once Z and N are cleared, before carry is        *)
            (* reached.                                                    *)
            LET sp == Call(operands[Key("SP")].get, <<>>, r, m)
                g == Call(f.get, <<>>, sp.reg, sp.mem)
            IN  IF sp.err # "" THEN sp
                ELSE IF g.err # "" THEN g
                ELSE Raise("TypeError",
                           set_flag(set_flag(g.reg, ZERO_MASK, FALSE),
                                    SUB_MASK, FALSE),
                           g.mem)
      [] f.fn = "imm16_read" ->
            LET g1 == Call(f.get, <<>>, r, m)
                g2 == Call(f.get, <<>>, g1.reg, g1.mem)
                g3 == Call(f.get, <<>>, g2.reg, g2.mem)
                g4 == Call(f.get, <<>>, g3.reg, g3.mem)
            IN  IF g1.err # "" THEN g1
                ELSE IF g2.err # "" THEN g2
                ELSE IF g3.err # "" THEN g3
                ELSE IF g4.err # "" THEN g4
                ELSE Ok(IntV(BitOr(g3.ret.v, ShiftLeft(g4.ret.v, 8))),
                        g4.reg, g4.mem)
      [] f.fn = "make_ind_read" -> MemRead(m, f.get, r)
      [] f.fn = "make_ind_write" -> MemWrite(m, f.get, args[1], r)
      [] f.fn = "make_fpage_read" ->
            LET g == Call(f.get, <<>>, r, m)
            IN  IF g.err # "" THEN g
                ELSE MemRead(g.mem, IntV(65280 + g.ret.v), g.reg)
      [] f.fn = "make_fpage_write" ->
            LET g == Call(f.get, <<>>, r, m)
            IN  IF g.err # "" THEN g
                ELSE MemWrite(g.mem, IntV(65280 + g.ret.v), args[1], g.reg)
      [] f.fn = "get_flag" ->
            Ok(BoolV(get_flag(r, f.mask, f.negated)), r, m)

(* operand.get() and operand.set(value): an entry that is no Operand (a    *)
(* literal int) has neither attribute.                                     *)
OperandGet(oper, r, m) ==
    IF oper.t # "Operand" THEN Raise("AttributeError", r, m)
    ELSE Call(oper.get, <<>>, r, m)

OperandSet(oper, value, r, m) ==
    IF oper.t # "Operand" THEN Raise("AttributeError", r, m)
    ELSE Call(oper.set, <<value>>, r, m)

---------------------------------------------------------------------------
(* Instruction bodies.                                                     *)

ADC(operand, r, m) ==
    LET A == r["A"]
        g == OperandGet(operand, r, m)
        val == g.ret.v
        cy == IF get_flag(g.reg, CARRY_MASK, FALSE) THEN 1 ELSE 0
        result == A + val + cy
        r1 == [g.reg EXCEPT !["A"] = BitAnd(result, 255)]
        r2 == zero(r1, result)
        r3 == half_carry(r2, A, val, cy, FALSE)
    IN  IF g.err # "" THEN g
        ELSE IF ~IsNum(g.ret) THEN Raise("TypeError", g.reg, g.mem)
        ELSE Ok(NoneV, carry(r3, result, FALSE), g.mem)

(* The 16-bit ADD, one step of the body per operator: the flags after     *)
(* oper1.set, the store after both reads, the second read after the first. *)
(* The flags of the 16-bit ADD with zero(result) written as well.          *)
ADD16FlagsWithZero(val1, val2, s) ==
    IF s.err # "" THEN s
    ELSE Ok(NoneV,
            carry(half_carry(zero(s.reg, val1 + val2), val1, val2, 0, TRUE),
                  val1 + val2, TRUE),
            s.mem)

ADD16Flags(val1, val2, s) ==
    IF s.err # "" THEN s
    ELSE Ok(NoneV,
            carry(half_carry(s.reg, val1, val2, 0, TRUE), val1 + val2, TRUE),
            s.mem)

ADD16Set(oper1, g1, g2) ==
    IF g2.err # "" THEN g2
    ELSE IF ~IsNum(g1.ret) \/ ~IsNum(g2.ret)
    THEN Raise("TypeError", g2.reg, g2.mem)
    ELSE ADD16Flags(g1.ret.v, g2.ret.v,
                    OperandSet(oper1,
                               IntV(BitAnd(g1.ret.v + g2.ret.v, 65535)),
                               g2.reg, g2.mem))

ADD16Get(oper1, oper2, g1) ==
    IF g1.err # "" THEN g1
    ELSE ADD16Set(oper1, g1, OperandGet(oper2, g1.reg, g1.mem))

(* The 8-bit ADD once oper1.get() has returned g.                          *)
ADD8(val1, g) ==
    LET val2 == g.ret.v
        result == val1 + val2
        r1 == [g.reg EXCEPT !["A"] = BitAnd(result, 255)]
        r2 == zero(r1, result)
    IN  IF g.err # "" THEN g
        ELSE IF ~IsNum(g.ret) THEN Raise("TypeError", g.reg, g.mem)
        ELSE Ok(NoneV,
                carry(half_carry(r2, val1, val2, 0, FALSE), result, FALSE),
                g.mem)

(* ADD with one operand: oper2 is None.                                    *)
ADD(oper1, oper2, r, m) ==
    LET is16bit == oper2.t # "None"
    IN  IF is16bit
        THEN ADD16Get(oper1, oper2, OperandGet(oper1, r, m))
        ELSE ADD8(r["A"], OperandGet(oper1, r, m))

(* BIT, one step of the body per operator: bit.get(), then operand.get(),  *)
(* then zero(result).                                                      *)
BITZero(b, g) ==
    IF g.err # "" THEN g
    ELSE IF ~IsNum(b.ret) \/ ~IsNum(g.ret) THEN Raise("TypeError", g.reg, g.mem)
    ELSE Ok(NoneV,
            zero(g.reg, BitAnd(g.ret.v, ShiftLeft(1, b.ret.v))),
            g.mem)

BITOperand(operand, b) ==
    IF b.err # "" THEN b ELSE BITZero(b, OperandGet(operand, b.reg, b.mem))

BIT(bit, operand, r, m) == BITOperand(operand, OperandGet(bit, r, m))

---------------------------------------------------------------------------
(* The dispatch table builder.  The metadata is the sequence of the        *)
(* entries of opcodes.json in the order the two loops visit them: each has *)
(* its group (prefix_type), opcode, mnemonic, cycles, flags and operand    *)
(* specs (the OperandKeys they make).                                      *)

(* An Instruction class whose constructor takes the five arguments the     *)
(* builder passes: name, operands, cycles, flags, eval.                    *)
NewInstructionOfFive(args) ==
    IF Len(args) # 5 THEN [err |-> "TypeError", ret |-> NoneV]
    ELSE [err |-> "",
          ret |-> [t |-> "Instruction", mnemonic |-> args[1],
                   operands |-> args[2], cycles |-> args[3],
                   flags |-> args[4]]]

(* Instruction(...) called with the positional arguments args: the name    *)
(* Instruction is bound to the class defined last, whose __init__ takes    *)
(* mnemonic, cycles, flags, operands.                                      *)
NewInstruction(args) ==
    IF Len(args) # 4 THEN [err |-> "TypeError", ret |-> NoneV]
    ELSE [err |-> "",
          ret |-> [t |-> "Instruction", mnemonic |-> args[1],
                   cycles |-> args[2], flags |-> args[3],
                   operands |-> args[4]]]

(* ins_operands: self.operands[opr_key] for each operand spec from the     *)
(* i-th on, appended to acc; a missing key raises KeyError.                *)
RECURSIVE ResolveOperands(_, _, _)
ResolveOperands(keys, i, acc) ==
    IF i > Len(keys) THEN [err |-> "", ret |-> acc]
    ELSE IF keys[i] \notin DOMAIN operands
    THEN [err |-> "KeyError", ret |-> acc]
    ELSE ResolveOperands(keys, i + 1, Append(acc, operands[keys[i]]))

(* The instruction built for one metadata entry.                           *)
BuildInstruction(data) ==
    LET ins_operands == ResolveOperands(data.operands, 1, <<>>)
    IN  IF ins_operands.err # "" THEN ins_operands
        ELSE NewInstruction(<<data.mnemonic, ins_operands.ret, data.cycles,
                              data.flags, "ins_fn">>)

(* The loop of make_dispatch_table from the i-th entry on; t holds the two *)
(* tables so far and the exception that ended the loop.                    *)
RECURSIVE BuildFrom(_, _, _)
BuildFrom(meta, i, t) ==
    IF i > Len(meta) THEN t
    ELSE LET data == meta[i]
             ins == BuildInstruction(data)
         IN  IF ins.err # "" THEN [t EXCEPT !.err = ins.err]
             ELSE IF data.prefix_type = "unprefixed"
             THEN BuildFrom(meta, i + 1,
                      [t EXCEPT !.opcodes = (data.opcode :> ins.ret) @@ @])
             ELSE BuildFrom(meta, i + 1,
                      [t EXCEPT !.prefixed = (data.opcode :> ins.ret) @@ @])

make_dispatch_table(meta, ops, pre) ==
    BuildFrom(meta, 1, [err |-> "", opcodes |-> ops, prefixed |-> pre])

---------------------------------------------------------------------------
(* The execution loop.  A loop state is Running or Fault(code, address),   *)
(* with the cycles accumulated so far.                                     *)

Fault(code, address, cycles) ==
    [name |-> "Fault", code |-> code, address |-> address, cycles |-> cycles]

(* The instruction body an Instruction names, on its resolved operands.    *)
Body(ins, r, m) ==
    CASE ins.mnemonic = "ADD" /\ Len(ins.operands) = 1 ->
            ADD(ins.operands[1], NoneV, r, m)
      [] ins.mnemonic = "ADD" /\ Len(ins.operands) = 2 ->
            ADD(ins.operands[1], ins.operands[2], r, m)
      [] ins.mnemonic = "ADC" /\ Len(ins.operands) = 1 ->
            ADC(ins.operands[1], r, m)
      [] ins.mnemonic = "BIT" /\ Len(ins.operands) = 2 ->
            BIT(ins.operands[1], ins.operands[2], r, m)
      [] OTHER -> Raise("TypeError", r, m)

(* The flag template applied once the body has returned out.               *)
Execute(ins, out) ==
    IF out.err # "" THEN out
    ELSE Ok(NoneV, apply_flags(out.reg, ins.flags), out.mem)

(* The byte fetched from address is looked up in table: no entry is a      *)
(* Fault carrying the byte and the address; an entry runs the instruction  *)
(* and accumulates its cycle count.                                        *)
Dispatch(st, table, byte, address, r, m) ==
    IF byte \notin DOMAIN table
    THEN [state |-> Fault(byte, address, st.cycles), out |-> Ok(NoneV, r, m)]
    ELSE [state |-> [st EXCEPT !.cycles = @ + table[byte].cycles[1]],
          out |-> Execute(table[byte], Body(table[byte], r, m))]

(* A Step that, in Fault, goes on to fetch the next byte as if Running.    *)
LoopStepResuming(st, r, m, ops, pre) ==
    LET pc == r["PC"]
        pc1 == (pc + 1) % 65536
        r1 == [r EXCEPT !["PC"] = pc1]
        r2 == [r EXCEPT !["PC"] = (pc1 + 1) % 65536]
        run == [st EXCEPT !.name = "Running"]
    IN  IF Peek(m, pc) = 203
        THEN Dispatch(run, pre, Peek(m, pc1), pc1, r2, m)
        ELSE Dispatch(run, ops, Peek(m, pc), pc, r1, m)

(* Step: outside Running nothing moves.  Otherwise the byte at PC is read  *)
(* and PC advanced by one; 0xCB reads one more byte, advances PC again and *)
(* looks that byte up in the prefixed table.                               *)
LoopStep(st, r, m, ops, pre) ==
    IF st.name # "Running" THEN [state |-> st, out |-> Ok(NoneV, r, m)]
    ELSE LET pc == r["PC"]
             pc1 == (pc + 1) % 65536
             r1 == [r EXCEPT !["PC"] = pc1]
             r2 == [r EXCEPT !["PC"] = (pc1 + 1) % 65536]
         IN  IF Peek(m, pc) = 203
             THEN Dispatch(st, pre, Peek(m, pc1), pc1, r2, m)
             ELSE Dispatch(st, ops, Peek(m, pc), pc, r1, m)

---------------------------------------------------------------------------
(* src/regmap.py: register maps over the same register file and memory.   *)
(* A map is the record of its attributes; offset 0 stands for None.        *)

RegisterMap(name, is_immediate) ==
    [cls |-> "RegisterMap", name |-> name, is_immediate |-> is_immediate]

(* RegisterMap.value, read.                                                *)
RegisterMapValue(self, r, m) ==
    IF self.is_immediate THEN Ok(IntV(r[self.name]), r, m)
    ELSE MemGetItem(m, IntV(r[self.name] + 65280), r)

(* RegisterMap.value = new_value.                                          *)
RegisterMapSetValue(self, new_value, r, m) ==
    IF self.is_immediate
    THEN Ok(NoneV, [r EXCEPT ![self.name] = new_value.v], m)
    ELSE MemSetItem(m, IntV(r[self.name] + 65280), new_value, r)

SplitRegisterMap(name, is_immediate, increment, decrement) ==
    [cls |-> "SplitRegisterMap", name |-> name,
     is_immediate |-> is_immediate,
     high |-> HighOf(name), low |-> LowOf(name),
     offset |-> IF increment \/ decrement
                THEN (IF increment THEN 1 ELSE -1) ELSE 0]

SplitRegValue(self, r) == ShiftLeft(r[self.high], 8) + r[self.low]

(* SplitRegisterMap.value = new_value.                                     *)
SplitRegisterMapSetValue(self, new_value, r, m) ==
    IF self.is_immediate
    THEN Ok(NoneV,
            [r EXCEPT ![self.high] = ShiftRight(new_value.v, 8),
                      ![self.low] = BitAnd(new_value.v, 255)],
            m)
    ELSE MemSetItem(m, IntV(SplitRegValue(self, r)), new_value, r)

(* mem[reg_value] once the assignment self.value = ... has returned s.     *)
SplitReadAfter(reg_value, s) ==
    IF s.err # "" THEN s ELSE MemGetItem(s.mem, IntV(reg_value), s.reg)

(* SplitRegisterMap.value, read: with an offset the getter first assigns   *)
(* reg_value + offset to self.value, through the setter above.             *)
SplitRegisterMapValue(self, r, m) ==
    IF self.is_immediate THEN Ok(IntV(SplitRegValue(self, r)), r, m)
    ELSE IF self.offset # 0
    THEN SplitReadAfter(
             SplitRegValue(self, r),
             SplitRegisterMapSetValue(
                 self, IntV(SplitRegValue(self, r) + self.offset), r, m))
    ELSE MemGetItem(m, IntV(SplitRegValue(self, r)), r)

(* The class statement of DirectRegisterMap: the decorator @value.set      *)
(* reads the attribute set of a property, which has none.                  *)
DirectRegisterMapClass(r, m) == Raise("AttributeError", r, m)

DirectRegisterMap(name, is_immediate, bytes) ==
    [cls |-> "DirectRegisterMap", name |-> name,
     is_immediate |-> is_immediate, bytes |-> bytes,
     offset |-> IF bytes = 1 THEN 65280 ELSE 0]

(* The second byte of a two-byte direct value, after the first read g1.    *)
DirectSecond(self, g1) ==
    IF g1.err # "" \/ self.bytes # 2 THEN g1
    ELSE LET g2 == MemGetItem(g1.mem, IntV(g1.reg["PC"]), g1.reg)
         IN  IF g2.err # "" THEN g2
             ELSE Ok(IntV(g1.ret.v + ShiftLeft(g2.ret.v, 8)),
                     [g2.reg EXCEPT !["PC"] = @ + 1], g2.mem)

DirectDeref(self, d) ==
    IF d.err # "" \/ self.is_immediate THEN d
    ELSE MemGetItem(d.mem, IntV(d.ret.v + self.offset), d.reg)

DirectFirst(g) ==
    IF g.err # "" THEN g ELSE Ok(g.ret, [g.reg EXCEPT !["PC"] = @ + 1], g.mem)

(* DirectRegisterMap.value, read.                                          *)
DirectRegisterMapValue(self, r, m) ==
    DirectDeref(self,
                DirectSecond(self,
                             DirectFirst(MemGetItem(m, IntV(r["PC"]), r))))

---------------------------------------------------------------------------
(* The state machine.  reg is self.reg, mem is self.mem, opcodes and        *)
(* prefixed are the two dispatch tables, state is the state of the         *)
(* execution loop; last records the operation that ran last: its name, its *)
(* operand keys and arguments, the register file and memory it started     *)
(* and loop state it started from, the value it returned and the          *)
(* exception it raised, and n counts                                       *)
(* the operations run so far (meta is the opcode metadata a table build    *)
(* was given).  An uncaught exception ends the program.                    *)

NoKey == Key("")

Record(op, k1, k2, a, b, c, w, flags, out) ==
    [op |-> op, k1 |-> k1, k2 |-> k2, a |-> a, b |-> b, c |-> c, w |-> w,
     flags |-> flags, meta |-> <<>>, pre |-> reg, premem |-> mem,
     prestate |-> state,
     err |-> out.err, ret |-> out.ret, n |-> last.n + 1]

Finish(op, k1, k2, a, b, c, w, flags, out) ==
    /\ reg' = out.reg
    /\ mem' = out.mem
    /\ last' = Record(op, k1, k2, a, b, c, w, flags, out)
    /\ UNCHANGED <<opcodes, prefixed, state>>

(* self.opcodes and self.prefixed after CPU.__init__: both empty.          *)
EmptyDispatch == <<>>

(* The execution loop before its first Step.                               *)
LoopRunning == [name |-> "Running", code |-> 0, address |-> 0, cycles |-> 0]

Constructed ==
    /\ opcodes = EmptyDispatch
    /\ prefixed = EmptyDispatch
    /\ state = LoopRunning

Started ==
    [op |-> "init", k1 |-> NoKey, k2 |-> NoKey, a |-> 0, b |-> 0, c |-> 0,
     w |-> FALSE, flags |-> <<>>, meta |-> <<>>, pre |-> reg, premem |-> mem,
     prestate |-> state,
     err |-> "", ret |-> NoneV, n |-> 0]

Running == last.err = ""
Fresh == last.op = "init"

(* self.operands[key]: a key the table lacks raises KeyError.              *)
Resolve(k, r, m) ==
    IF k \in DOMAIN operands THEN Ok(operands[k], r, m)
    ELSE Raise("KeyError", r, m)

(* One get of the operand resolved for key k.                              *)
Get(k) ==
    /\ Running
    /\ LET o == Resolve(k, reg, mem)
       IN  Finish("get", k, NoKey, 0, 0, 0, FALSE, <<>>,
                  IF o.err # "" THEN o ELSE OperandGet(o.ret, reg, mem))

(* One set of the operand resolved for key k to the value v.               *)
Set(k, v) ==
    /\ Running
    /\ LET o == Resolve(k, reg, mem)
       IN  Finish("set", k, NoKey, v, 0, 0, FALSE, <<>>,
                  IF o.err # "" THEN o
                  ELSE OperandSet(o.ret, IntV(v), reg, mem))

(* One get of the operand resolved for key k right after a set of it; the  *)
(* value that was set stays on record as a.                                *)
GetBack(k) ==
    /\ Running
    /\ last.op = "set" /\ last.k1 = k
    /\ LET o == Resolve(k, reg, mem)
       IN  Finish("getback", k, NoKey, last.a, 0, 0, FALSE, <<>>,
                  IF o.err # "" THEN o ELSE OperandGet(o.ret, reg, mem))

(* unsigned_16 of the high and low registers of the pair arid.             *)
DoUnsigned16(arid) ==
    /\ Running
    /\ Finish("unsigned_16", Key(arid), NoKey, 0, 0, 0, FALSE, <<>>,
              Ok(IntV(unsigned_16(reg[HighOf(arid)], reg[LowOf(arid)])),
                 reg, mem))

(* ADD with one operand (8-bit, added to A).                               *)
DoADD(k) ==
    /\ Running
    /\ LET o == Resolve(k, reg, mem)
       IN  Finish("ADD", k, NoKey, 0, 0, 0, FALSE, <<>>,
                  IF o.err # "" THEN o ELSE ADD(o.ret, NoneV, reg, mem))

(* ADD with two operands (16-bit).                                         *)
DoADD16(k1, k2) ==
    /\ Running
    /\ LET o1 == Resolve(k1, reg, mem)
           o2 == Resolve(k2, reg, mem)
       IN  Finish("ADD16", k1, k2, 0, 0, 0, TRUE, <<>>,
                  IF o1.err # "" THEN o1
                  ELSE IF o2.err # "" THEN o2
                  ELSE ADD(o1.ret, o2.ret, reg, mem))

(* BIT with the operands resolved for the keys kb (the bit) and k.         *)
DoBIT(kb, k) ==
    /\ Running
    /\ LET o1 == Resolve(kb, reg, mem)
           o2 == Resolve(k, reg, mem)
       IN  Finish("BIT", kb, k, 0, 0, 0, FALSE, <<>>,
                  IF o1.err # "" THEN o1
                  ELSE IF o2.err # "" THEN o2
                  ELSE BIT(o1.ret, o2.ret, reg, mem))

DoADC(k) ==
    /\ Running
    /\ LET o == Resolve(k, reg, mem)
       IN  Finish("ADC", k, NoKey, 0, 0, 0, FALSE, <<>>,
                  IF o.err # "" THEN o ELSE ADC(o.ret, reg, mem))

DoSetFlag(mask, val) ==
    /\ Running
    /\ Finish("set_flag", NoKey, NoKey, mask, 0, 0, val, <<>>,
              Ok(NoneV, set_flag(reg, mask, val), mem))

DoZero(value) ==
    /\ Running
    /\ Finish("zero", NoKey, NoKey, value, 0, 0, FALSE, <<>>,
              Ok(NoneV, zero(reg, value), mem))

DoHalfCarry(oper1, oper2, cin, is16bit) ==
    /\ Running
    /\ Finish("half_carry", NoKey, NoKey, oper1, oper2, cin, is16bit, <<>>,
              Ok(NoneV, half_carry(reg, oper1, oper2, cin, is16bit), mem))

DoCarry(value, is16bit) ==
    /\ Running
    /\ Finish("carry", NoKey, NoKey, value, 0, 0, is16bit, <<>>,
              Ok(NoneV, carry(reg, value, is16bit), mem))

(* apply_flags for an instruction whose flag template is flags.            *)
DoApplyFlags(flags) ==
    /\ Running
    /\ Finish("apply_flags", NoKey, NoKey, 0, 0, 0, FALSE, flags,
              Ok(NoneV, apply_flags(reg, flags), mem))

(* make_dispatch_table over the metadata meta.                             *)
DoMakeDispatchTable(meta) ==
    /\ Running
    /\ LET t == make_dispatch_table(meta, opcodes, prefixed)
       IN  /\ opcodes' = t.opcodes
           /\ prefixed' = t.prefixed
           /\ last' = [Record("make_dispatch_table", NoKey, NoKey, 0, 0, 0,
                              FALSE, <<>>, [err |-> t.err, ret |-> NoneV])
                       EXCEPT !.meta = meta]
    /\ UNCHANGED <<reg, mem, state>>

(* One Step of the execution loop.                                         *)
StepTo(s) ==
    /\ reg' = s.out.reg
    /\ mem' = s.out.mem
    /\ state' = s.state
    /\ last' = Record("Step", NoKey, NoKey, 0, 0, 0, FALSE, <<>>, s.out)

DoStep ==
    /\ Running
    /\ StepTo(LoopStep(state, reg, mem, opcodes, prefixed))
    /\ UNCHANGED <<opcodes, prefixed>>

(* One read of the value of a RegisterMap over register name.             *)
RegisterMapGet(name, is_immediate) ==
    /\ Running
    /\ Finish("RegisterMap.get", OperandKey(name, is_immediate, FALSE, FALSE),
              NoKey, 0, 0, 0, FALSE, <<>>,
              RegisterMapValue(RegisterMap(name, is_immediate), reg, mem))

RegisterMapSet(name, is_immediate, v) ==
    /\ Running
    /\ Finish("RegisterMap.set", OperandKey(name, is_immediate, FALSE, FALSE),
              NoKey, v, 0, 0, FALSE, <<>>,
              RegisterMapSetValue(RegisterMap(name, is_immediate), IntV(v),
                                  reg, mem))

(* One read of the value of a SplitRegisterMap over the pair name.         *)
SplitRegisterMapGet(name, is_immediate, increment, decrement) ==
    /\ Running
    /\ Finish("SplitRegisterMap.get",
              OperandKey(name, is_immediate, increment, decrement),
              NoKey, 0, 0, 0, FALSE, <<>>,
              SplitRegisterMapValue(
                  SplitRegisterMap(name, is_immediate, increment, decrement),
                  reg, mem))

SplitRegisterMapSet(name, is_immediate, increment, decrement, v) ==
    /\ Running
    /\ Finish("SplitRegisterMap.set",
              OperandKey(name, is_immediate, increment, decrement),
              NoKey, v, 0, 0, FALSE, <<>>,
              SplitRegisterMapSetValue(
                  SplitRegisterMap(name, is_immediate, increment, decrement),
                  IntV(v), reg, mem))

(* The class statement of DirectRegisterMap, then one read of the value of *)
(* a map of that class.                                                    *)
DirectRegisterMapGet(name, is_immediate, bytes) ==
    /\ Running
    /\ LET c == DirectRegisterMapClass(reg, mem)
       IN  Finish("DirectRegisterMap.get",
                  OperandKey(name, is_immediate, FALSE, FALSE),
                  NoKey, 0, bytes, 0, FALSE, <<>>,
                  IF c.err # "" THEN c
                  ELSE DirectRegisterMapValue(
                           DirectRegisterMap(name, is_immediate, bytes),
                           reg, mem))

(* The class statement, then one assignment to the value of a map: the     *)
(* class statement never gets to bind a setter.                            *)
DirectRegisterMapSet(name, is_immediate, bytes, v) ==
    /\ Running
    /\ LET c == DirectRegisterMapClass(reg, mem)
       IN  Finish("DirectRegisterMap.set",
                  OperandKey(name, is_immediate, FALSE, FALSE),
                  NoKey, v, bytes, 0, FALSE, <<>>,
                  IF c.err # "" THEN c ELSE Raise("AttributeError", reg, mem))

---------------------------------------------------------------------------
(* The memory images the specifications start from.                        *)

Memory(rom, strict) == [rom |-> rom, strict |-> strict, cells |-> <<>>]

---------------------------------------------------------------------------
(* SpecFlags: from the power-on register file, any sequence of flag        *)
(* helpers, apply_flags with any template, and ADD A,B / ADD A,A.          *)

FlagSymbols == {"0", "1", "-", "computed"}
Templates == {<<z, n, h, c>> : z \in FlagSymbols, n \in FlagSymbols,
                             h \in FlagSymbols, c \in FlagSymbols}
Masks == {ZERO_MASK, SUB_MASK, HALFC_MASK, CARRY_MASK}

FlagValues == {0, 1, 255, 256, 65535, 65536}

(* The flag specification runs at most MaxOps operations.                  *)
MaxOps == 2

Within == Running /\ last.n < MaxOps

InitFlags ==
    /\ reg = make_registers
    /\ mem = Memory(0, TRUE)
    /\ Constructed
    /\ last = Started

FlagsSetFlag ==
    \E mask \in Masks, val \in BOOLEAN : Within /\ DoSetFlag(mask, val)

FlagsZero == \E value \in FlagValues : Within /\ DoZero(value)

FlagsHalfCarry ==
    \E o1 \in {15, 4095}, o2 \in {0, 1}, cin \in {0, 1}, is16bit \in BOOLEAN :
        Within /\ DoHalfCarry(o1, o2, cin, is16bit)

FlagsCarry ==
    \E value \in FlagValues, is16bit \in BOOLEAN :
        Within /\ DoCarry(value, is16bit)

FlagsApplyFlags == \E flags \in Templates : Within /\ DoApplyFlags(flags)

FlagsADD == \E k \in {Key("A"), Key("B")} : Within /\ DoADD(k)

NextFlags ==
    \/ FlagsSetFlag
    \/ FlagsZero
    \/ FlagsHalfCarry
    \/ FlagsCarry
    \/ FlagsApplyFlags
    \/ FlagsADD

SpecFlags == InitFlags /\ [][NextFlags]_vars

---------------------------------------------------------------------------
(* SpecALU: one ADD, ADC or BIT from a register file the host has loaded:  *)
(* any A against boundary values of B with either carry-in, and boundary   *)
(* values of the pairs HL and BC.                                          *)

OperandBytes == {0, 1, 15, 16, 127, 128, 240, 255}
StartFlags == {176, 0}

InitALU ==
    /\ \/ \E a \in 0..255, b \in OperandBytes, f \in StartFlags :
             reg = [make_registers EXCEPT !["A"] = a, !["B"] = b, !["F"] = f]
       \/ \E h \in {0, 15, 128, 255}, l \in {0, 255}, b \in OperandBytes,
             c \in {1, 255}, f \in StartFlags :
             reg = [make_registers EXCEPT !["H"] = h, !["L"] = l,
                                          !["B"] = b, !["C"] = c, !["F"] = f]
    /\ mem = Memory(0, TRUE)
    /\ Constructed
    /\ last = Started

AluADD == \E k \in {Key("A"), Key("B")} : Fresh /\ DoADD(k)

AluADC == \E k \in {Key("A"), Key("B")} : Fresh /\ DoADC(k)

AluADD16 ==
    \E k2 \in {Key("BC"), Key("DE"), Key("HL"), Key("SP")} :
        Fresh /\ DoADD16(Key("HL"), k2)

(* half_carry on A and B (8-bit) or on HL and BC (16-bit), with either    *)
(* carry-in.                                                               *)
AluHalfCarry ==
    \E cin \in {0, 1}, is16bit \in BOOLEAN :
        Fresh /\ DoHalfCarry(
                     IF is16bit THEN 256 * reg["H"] + reg["L"] ELSE reg["A"],
                     IF is16bit THEN 256 * reg["B"] + reg["C"] ELSE reg["B"],
                     cin, is16bit)

AluBIT ==
    \E kb \in {Key("0"), Key("7")}, k \in {Key("A"), Key("H")} :
        Fresh /\ DoBIT(kb, k)

NextALU ==
    \/ AluADD
    \/ AluADC
    \/ AluADD16
    \/ AluBIT
    \/ AluHalfCarry

SpecALU == InitALU /\ [][NextALU]_vars

---------------------------------------------------------------------------
(* SpecAccess: one get or set of a resolved operand from a register file   *)
(* and memory the host has loaded.                                         *)

GetKeys ==
    (DOMAIN operands \ {Key(d) : d \in {"0", "1", "2", "3", "4", "5", "6",
                                        "00H", "08H", "10H", "18H", "20H",
                                        "28H", "30H"}})
    \cup {Key("NC")}

SetKeys == GetKeys

Is16(k) ==
    k.immediate /\ k.name \in Range(all_addr_reg_ids)

SetValues(k) == IF Is16(k) THEN {0, 90, 49152, 65535} ELSE {0, 90, 255}

InitAccess ==
    /\ \E pc \in {256, 65535}, sp \in {65534, 65528},
          hl \in {333, 49152, 65535, 0}, a \in {1, 90}, f \in {176, 0},
          c \in {19, 128} :
          reg = [make_registers EXCEPT
                    !["PC"] = pc, !["SP"] = sp, !["H"] = hl \div 256,
                    !["L"] = hl % 256, !["A"] = a, !["F"] = f, !["C"] = c]
    /\ \E rom \in {0, 2, 128}, strict \in BOOLEAN : mem = Memory(rom, strict)
    /\ Constructed
    /\ last = Started

AccessGet == \E k \in GetKeys : Fresh /\ Get(k)

AccessSet == \E k \in SetKeys : \E v \in SetValues(k) : Fresh /\ Set(k, v)

AccessRegisterMapGet ==
    \E name \in {"A", "C"}, imm \in BOOLEAN :
        Fresh /\ RegisterMapGet(name, imm)

AccessRegisterMapSet ==
    \E name \in {"A", "C"}, imm \in BOOLEAN, v \in {0, 90, 255} :
        Fresh /\ RegisterMapSet(name, imm, v)

(* increment and decrement as the constructor is called: at most one set.  *)
Nudges == {<<FALSE, FALSE>>, <<TRUE, FALSE>>, <<FALSE, TRUE>>}

AccessSplitGet ==
    \E name \in {"BC", "HL"}, imm \in BOOLEAN, nd \in Nudges :
        Fresh /\ SplitRegisterMapGet(name, imm, nd[1], nd[2])

AccessSplitSet ==
    \E name \in {"BC", "HL"}, imm \in BOOLEAN, nd \in Nudges :
        \E v \in (IF imm THEN {0, 90, 49152, 65535} ELSE {0, 90, 255}) :
            Fresh /\ SplitRegisterMapSet(name, imm, nd[1], nd[2], v)

AccessDirectGet ==
    \E name \in {"a8", "a16"}, imm \in BOOLEAN :
        Fresh /\ DirectRegisterMapGet(name, imm,
                                      IF name = "a8" THEN 1 ELSE 2)

AccessDirectSet ==
    \E name \in {"a8", "a16"}, imm \in BOOLEAN, v \in {0, 90, 255} :
        Fresh /\ DirectRegisterMapSet(name, imm,
                                      IF name = "a8" THEN 1 ELSE 2, v)

NextAccess ==
    \/ AccessGet
    \/ AccessSet
    \/ AccessRegisterMapGet
    \/ AccessRegisterMapSet
    \/ AccessSplitGet
    \/ AccessSplitSet
    \/ AccessDirectGet
    \/ AccessDirectSet

SpecAccess == InitAccess /\ [][NextAccess]_vars

---------------------------------------------------------------------------
(* SpecPair: a register pair is set and read back, or read as the host     *)
(* loaded it, for boundary bytes in the high and the low register.         *)

PairValues == {256 * h + l : h \in OperandBytes, l \in OperandBytes}

PairKeys == {Key(arid) : arid \in Range(split_addr_reg_ids)}

InitPair ==
    /\ \E h \in OperandBytes, l \in OperandBytes :
          reg = [make_registers EXCEPT
                    !["A"] = h, !["B"] = h, !["D"] = h, !["H"] = h,
                    !["F"] = l, !["C"] = l, !["E"] = l, !["L"] = l]
    /\ mem = Memory(0, TRUE)
    /\ Constructed
    /\ last = Started

PairSet == \E k \in PairKeys, v \in PairValues : Fresh /\ Set(k, v)

PairGetBack == \E k \in PairKeys : Running /\ GetBack(k)

PairGet == \E k \in PairKeys : Fresh /\ Get(k)

PairUnsigned16 ==
    \E arid \in Range(split_addr_reg_ids) : Fresh /\ DoUnsigned16(arid)

NextPair ==
    \/ PairSet
    \/ PairGetBack
    \/ PairGet
    \/ PairUnsigned16

SpecPair == InitPair /\ [][NextPair]_vars

---------------------------------------------------------------------------
(* SpecBuild: one build of the dispatch tables from a metadata file of at  *)
(* most MaxEntries instructions, with operand specs the operand table has  *)
(* and has not, and mnemonics the CPU implements and does not.             *)

MaxEntries == 2

MetaOperands ==
    {<<>>, <<Key("A"), Key("B")>>, <<IndKey("HL")>>, <<Key("A"), Key("NC")>>}

MetaEntries ==
    {[prefix_type |-> p, opcode |-> 128, mnemonic |-> mn, cycles |-> <<4>>,
      flags |-> <<"computed", "0", "computed", "computed">>, operands |-> o] :
        p \in {"unprefixed", "prefixed"}, mn \in {"ADD", "NOP"},
        o \in MetaOperands}

RECURSIVE MetaFiles(_)
MetaFiles(n) ==
    IF n = 0 THEN {<<>>}
    ELSE MetaFiles(n - 1)
         \cup {Append(f, e) : f \in {g \in MetaFiles(n - 1) : Len(g) = n - 1},
                              e \in MetaEntries}

InitBuild ==
    /\ reg = make_registers
    /\ mem = Memory(0, TRUE)
    /\ Constructed
    /\ last = Started

BuildTables == \E meta \in MetaFiles(MaxEntries) :
                  Fresh /\ DoMakeDispatchTable(meta)

NextBuild == BuildTables

SpecBuild == InitBuild /\ [][NextBuild]_vars

---------------------------------------------------------------------------
(* SpecLoop: a host calls Step up to MaxSteps times, from PC at the start  *)
(* of a short program, with the dispatch tables empty as CPU.__init__      *)
(* leaves them or holding ADD A,B at 0x80 and BIT 7,H at CB 7C.            *)

MaxSteps == 3

SampleOpcodes ==
    128 :> [t |-> "Instruction", mnemonic |-> "ADD", cycles |-> <<4>>,
            flags |-> <<"computed", "0", "computed", "computed">>,
            operands |-> <<operands[Key("B")]>>]

SamplePrefixed ==
    124 :> [t |-> "Instruction", mnemonic |-> "BIT", cycles |-> <<8>>,
            flags |-> <<"computed", "0", "1", "-">>,
            operands |-> <<operands[Key("7")], operands[Key("H")]>>]

Programs ==
    {<<237>>, <<128, 237>>, <<128, 128, 237>>, <<203, 237>>, <<203, 124>>,
     <<128, 203, 16>>, <<0, 128>>, <<128, 128, 128>>}

(* The memory image with the bytes of program at pc and after.             *)
Loaded(rom, pc, program) ==
    [Memory(rom, TRUE) EXCEPT
        !.cells = [a \in {(pc + i - 1) % 65536 : i \in 1..Len(program)} |->
                      program[CHOOSE i \in 1..Len(program) :
                                  (pc + i - 1) % 65536 = a]]]

InitLoop ==
    /\ \E pc \in {256, 65535}, b \in {0, 255} :
          reg = [make_registers EXCEPT !["PC"] = pc, !["B"] = b]
    /\ \E rom \in {0, 237}, program \in Programs :
          mem = Loaded(rom, reg["PC"], program)
    /\ \/ opcodes = EmptyDispatch /\ prefixed = EmptyDispatch
       \/ opcodes = SampleOpcodes /\ prefixed = SamplePrefixed
    /\ state = LoopRunning
    /\ last = Started

LoopStepAction == last.n < MaxSteps /\ DoStep

NextLoop == LoopStepAction

SpecLoop == InitLoop /\ [][NextLoop]_vars

---------------------------------------------------------------------------
(* What the claims speak of, read off the state alone.                     *)

FlagSet(r, mask) == (r["F"] \div mask) % 2 = 1

PairValue(r, arid) == 256 * r[HighOf(arid)] + r[LowOf(arid)]

(* The value of a register or register-pair operand in register file r.    *)
ValueOf(r, k) ==
    IF k.name \in Range(split_addr_reg_ids) THEN PairValue(r, k.name)
    ELSE r[k.name]

(* The unmasked sum of the 8-bit ADD/ADC that ran last.                    *)
Sum8 ==
    last.pre["A"] + ValueOf(last.pre, last.k1)
    + (IF last.op = "ADC" /\ FlagSet(last.pre, CARRY_MASK) THEN 1 ELSE 0)

(* The unmasked sum of the 16-bit ADD that ran last.                       *)
Sum16 == ValueOf(last.pre, last.k1) + ValueOf(last.pre, last.k2)

(* The bytes at PC and PC + 1 before the operation that ran last.          *)
ByteAtPC == Peek(last.premem, last.pre["PC"])
ByteAfterPC == Peek(last.premem, (last.pre["PC"] + 1) % 65536)
WordAtPC == ByteAtPC + 256 * ByteAfterPC

(* PC is the old PC advanced by count, wrapped to 16 bits or not.          *)
Advanced(rid, count) ==
    reg[rid] \in {last.pre[rid] + count, (last.pre[rid] + count) % 65536}

---------------------------------------------------------------------------
(* C1: after the one-operand ADD/ADC the carry flag (bit 4 of F) is set    *)
(* iff the unmasked sum exceeds 0xFF; after the two-operand 16-bit ADD it  *)
(* is set iff the unmasked sum exceeds 0xFFFF.                             *)
C1_CarryIffSumExceedsWidth ==
    /\ last.op \in {"ADD", "ADC"} =>
          /\ last.err = ""
          /\ FlagSet(reg, CARRY_MASK) <=> (Sum8 > 255)
    /\ last.op = "ADD16" =>
          /\ last.err = ""
          /\ FlagSet(reg, CARRY_MASK) <=> (Sum16 > 65535)

(* C5: after the one-operand ADD/ADC register A holds the sum masked to    *)
(* 0xFF and the zero flag (bit 7 of F) is set iff that masked result is 0. *)
C5_ZeroIffMaskedSumIsZero ==
    last.op \in {"ADD", "ADC"} =>
        /\ last.err = ""
        /\ reg["A"] = Sum8 % 256
        /\ FlagSet(reg, ZERO_MASK) <=> (Sum8 % 256 = 0)

---------------------------------------------------------------------------
(* C2: in every state reachable from the power-on register file by flag    *)
(* helpers, apply_flags and instruction bodies, the low nibble of F is 0.  *)
C2_LowNibbleOfFIsZero == reg["F"] % 16 = 0

(* The Z, N, H, C bit of F for template position i (1..4).                 *)
PositionMask(i) ==
    CASE i = 1 -> ZERO_MASK [] i = 2 -> SUB_MASK
      [] i = 3 -> HALFC_MASK [] i = 4 -> CARRY_MASK

(* C6: applying a template (Z,N,H,C) clears the flag at each position      *)
(* marked "0", sets it at each position marked "1", the positions being    *)
(* bits 7, 6, 5, 4 of F, and leaves every other flag and every other bit   *)
(* of F unchanged.                                                         *)
C6_TemplateForcesZNHC ==
    last.op = "apply_flags" =>
        /\ last.err = ""
        /\ \A i \in 1..4 :
              IF last.flags[i] = "0" THEN ~FlagSet(reg, PositionMask(i))
              ELSE IF last.flags[i] = "1" THEN FlagSet(reg, PositionMask(i))
              ELSE FlagSet(reg, PositionMask(i))
                   <=> FlagSet(last.pre, PositionMask(i))
        /\ reg["F"] % 16 = last.pre["F"] % 16
        /\ reg["F"] \div 256 = last.pre["F"] \div 256

---------------------------------------------------------------------------
(* C3: whatever operand accesses ran, every 8-bit register holds a value   *)
(* in 0..0xFF and PC and SP hold values in 0..0xFFFF: a post-increment at  *)
(* 0xFFFF wraps to 0x0000 and a post-decrement at 0x0000 to 0xFFFF.        *)
C3_RegistersStayInRange ==
    /\ \A rid \in Range(reg_ids) : reg[rid] \in 0..255
    /\ \A rid \in Range(nonsplit_addr_reg_ids) : reg[rid] \in 0..65535

(* C4: one get of d16 or a16 returns mem[PC] | (mem[PC+1] << 8) and leaves *)
(* PC advanced by two; one get of d8 or a8 returns mem[PC] and leaves PC   *)
(* advanced by one.                                                        *)
C4_ImmediateFetch ==
    /\ (last.op = "get" /\ last.k1 \in {Key("d16"), Key("a16")}) =>
          /\ last.err = ""
          /\ last.ret = IntV(WordAtPC)
          /\ Advanced("PC", 2)
    /\ (last.op = "get" /\ last.k1 \in {Key("d8"), Key("a8")}) =>
          /\ last.err = ""
          /\ last.ret = IntV(ByteAtPC)
          /\ Advanced("PC", 1)

(* The pair HL is the old HL moved by count, wrapped to 16 bits or not.    *)
PairMoved(arid, count) ==
    PairValue(reg, arid)
        \in {PairValue(last.pre, arid) + count,
             (PairValue(last.pre, arid) + count) % 65536}

(* C7: a store through (HL+) writes the value to memory at the old HL and  *)
(* leaves HL one higher; a store through (HL-) leaves HL one lower.        *)
C7_StoreThroughNudgedHL ==
    /\ (last.op = "set" /\ last.k1 = IncKey("HL")) =>
          /\ last.err = ""
          /\ Peek(mem, PairValue(last.pre, "HL")) = last.a
          /\ PairMoved("HL", 1)
    /\ (last.op = "set" /\ last.k1 = DecKey("HL")) =>
          /\ last.err = ""
          /\ Peek(mem, PairValue(last.pre, "HL")) = last.a
          /\ PairMoved("HL", -1)

(* The status bit a condition name stands for.                             *)
ConditionHolds(r, name) ==
    CASE name = "Z" -> FlagSet(r, ZERO_MASK)
      [] name = "NZ" -> ~FlagSet(r, ZERO_MASK)
      [] name = "C" -> FlagSet(r, CARRY_MASK)
      [] name = "NC" -> ~FlagSet(r, CARRY_MASK)

(* C8: the operand keys Z, NZ, C and NC each resolve to an operand with no *)
(* setter whose get returns the zero bit, the negated zero bit, the carry  *)
(* bit and the negated carry bit of F.                                     *)
C8_ConditionsReadStatusBits ==
    (last.op = "get" /\ last.k1 \in {Key("Z"), Key("NZ"), Key("C"), Key("NC")})
    =>  /\ last.k1 \in DOMAIN operands
        /\ operands[last.k1].set = NoneV
        /\ last.err = ""
        /\ Truthy(last.ret) <=> ConditionHolds(last.pre, last.k1.name)

(* The byte b read as a two's complement number.                           *)
Signed(b) == IF b >= 128 THEN b - 256 ELSE b

(* C9: one get of SP+r8 returns (SP + signed(b)) mod 0x10000 for the byte  *)
(* b at PC, clears Z and N, sets H iff (SP & 0x0F) + (b & 0x0F) > 0x0F and *)
(* sets C iff (SP & 0xFF) + b > 0xFF.                                      *)
C9_StackRelativeAdd ==
    (last.op = "get" /\ last.k1 = Key("SP+r8")) =>
        /\ last.err = ""
        /\ last.ret = IntV((last.pre["SP"] + Signed(ByteAtPC)) % 65536)
        /\ ~FlagSet(reg, ZERO_MASK)
        /\ ~FlagSet(reg, SUB_MASK)
        /\ FlagSet(reg, HALFC_MASK)
           <=> ((last.pre["SP"] % 16) + (ByteAtPC % 16) > 15)
        /\ FlagSet(reg, CARRY_MASK)
           <=> ((last.pre["SP"] % 256) + ByteAtPC > 255)

(* The address a memory-indirect operand stands for: the value of the      *)
(* pair, or the a16 word at PC.                                            *)
IndirectAddress(name) ==
    IF name = "a16" THEN WordAtPC ELSE PairValue(last.pre, name)

IndirectNames == Range(split_addr_reg_ids) \cup {"a16"}

(* C10: the memory-indirect operand of a register pair or of a16 reads the *)
(* memory byte at the pair's (or the fetched) address and writes the given *)
(* byte to that same address.                                              *)
C10_IndirectDereferencesPair ==
    /\ (last.op = "get" /\ last.k1 \in {IndKey(id) : id \in IndirectNames}) =>
          /\ last.err = ""
          /\ last.ret = IntV(Peek(last.premem, IndirectAddress(last.k1.name)))
    /\ (last.op = "set" /\ last.k1 \in {IndKey(id) : id \in IndirectNames}) =>
          /\ last.err = ""
          /\ Peek(mem, IndirectAddress(last.k1.name)) = last.a

---------------------------------------------------------------------------
(* The final-page address of (C) and (a8): 0xFF00 plus register C, or plus *)
(* the byte at PC, before the operation that ran last.                     *)
FPageValue(name) == IF name = "C" THEN last.pre["C"] ELSE ByteAtPC
FPageAddress(name) == 65280 + FPageValue(name)

FPageKeys == {IndKey("C"), IndKey("a8")}

FPageReads == {"get", "RegisterMap.get", "DirectRegisterMap.get"}
FPageWrites == {"set", "RegisterMap.set", "DirectRegisterMap.set"}

(* C11: every read and every write through (C) and (a8) uses the address   *)
(* 0xFF00 + v, v being register C or the byte fetched at PC, never the raw *)
(* address v: for the operands of the operand table, for RegisterMap and   *)
(* for DirectRegisterMap with bytes=1.                                     *)
C11_FinalPageOffset ==
    /\ (last.op \in FPageReads /\ last.k1 \in FPageKeys) =>
          /\ last.err = ""
          /\ last.ret = IntV(Peek(last.premem, FPageAddress(last.k1.name)))
    /\ (last.op \in FPageWrites /\ last.k1 \in FPageKeys) =>
          /\ last.err = ""
          /\ Peek(mem, FPageAddress(last.k1.name)) = last.a
          /\ Peek(mem, FPageValue(last.k1.name))
             = Peek(last.premem, FPageValue(last.k1.name))

---------------------------------------------------------------------------
(* The mnemonics the CPU has an instruction body for.                      *)
Implemented == {"ADC", "ADD", "AND", "BIT"}

(* A metadata entry fails to resolve: an operand spec has no entry in the  *)
(* operand table, or the mnemonic has no implementation.                   *)
Unresolved(data) ==
    \/ \E i \in 1..Len(data.operands) : data.operands[i] \notin DOMAIN operands
    \/ data.mnemonic \notin Implemented

TableOf(data) == IF data.prefix_type = "unprefixed" THEN opcodes ELSE prefixed

(* C12: building the dispatch table ends in an error whenever the metadata *)
(* has an operand spec with no operand-table entry or a mnemonic with no   *)
(* implementation, and no entry is stored in either table for an           *)
(* instruction that failed to resolve.                                     *)
C12_BuildFailsFast ==
    last.op = "make_dispatch_table" =>
        \A i \in 1..Len(last.meta) :
            Unresolved(last.meta[i]) =>
                /\ last.err # ""
                /\ \/ last.meta[i].opcode \notin DOMAIN TableOf(last.meta[i])
                   \/ TableOf(last.meta[i])[last.meta[i].opcode].mnemonic
                      # last.meta[i].mnemonic

(* A build whose first instruction names a mnemonic without implementation *)
(* and resolvable operands has ended in an error with both tables empty.   *)
C12_Witness ==
    /\ last.op = "make_dispatch_table"
    /\ Len(last.meta) = 2
    /\ last.meta[1].mnemonic = "NOP"
    /\ \A i \in 1..Len(last.meta[1].operands) :
          last.meta[1].operands[i] \in DOMAIN operands
    /\ last.err = "TypeError"
    /\ opcodes = <<>> /\ prefixed = <<>>

---------------------------------------------------------------------------
(* C13: setting a register pair to a 16-bit value v leaves the high        *)
(* register at v >> 8 and the low register at v & 0xFF, the read that      *)
(* follows returns v, and for 8-bit h and l the pair getter (and           *)
(* unsigned_16) returns (h << 8) | l.                                      *)
C13_PairRoundTrip ==
    /\ (last.op = "set" /\ last.k1 \in PairKeys) =>
          /\ last.err = ""
          /\ reg[HighOf(last.k1.name)] = last.a \div 256
          /\ reg[LowOf(last.k1.name)] = last.a % 256
    /\ (last.op = "getback" /\ last.k1 \in PairKeys) =>
          /\ last.err = ""
          /\ last.ret = IntV(last.a)
    /\ (last.op \in {"get", "unsigned_16"} /\ last.k1 \in PairKeys) =>
          /\ last.err = ""
          /\ last.ret = IntV(256 * last.pre[HighOf(last.k1.name)]
                             + last.pre[LowOf(last.k1.name)])

(* HL was set to 0x0FF0 and read back as 0x0FF0, H = 0x0F and L = 0xF0.    *)
C13_Witness ==
    /\ last.op = "getback" /\ last.k1 = Key("HL") /\ last.a = 4080
    /\ last.err = "" /\ last.ret = IntV(4080)
    /\ reg["H"] = 15 /\ reg["L"] = 240

---------------------------------------------------------------------------
(* The bit index a literal operand key "0".."7" names.                     *)
BitIndex(name) ==
    CASE name = "0" -> 0 [] name = "1" -> 1 [] name = "2" -> 2
      [] name = "3" -> 3 [] name = "4" -> 4 [] name = "5" -> 5
      [] name = "6" -> 6 [] name = "7" -> 7

(* C14: BIT b,x with b resolved from the literal keys "0".."7" sets Z iff  *)
(* bit b of x is 0 and leaves the operand, every other register, PC, SP,   *)
(* memory and the carry flag unchanged.                                    *)
C14_BitTestsWithoutWriting ==
    last.op = "BIT" =>
        /\ last.err = ""
        /\ FlagSet(reg, ZERO_MASK)
           <=> ((ValueOf(last.pre, last.k2) \div Pow2(BitIndex(last.k1.name)))
                    % 2 = 0)
        /\ \A rid \in DOMAIN reg : rid # "F" => reg[rid] = last.pre[rid]
        /\ FlagSet(reg, CARRY_MASK) <=> FlagSet(last.pre, CARRY_MASK)
        /\ mem = last.premem

---------------------------------------------------------------------------
(* The byte the Step that ran last decoded, the address it was fetched     *)
(* from and the table it was looked up in: the byte after a 0xCB prefix,   *)
(* in the prefixed table, or the byte at PC, in the unprefixed one.        *)
WasPrefixed == ByteAtPC = 203
DecodedAddress ==
    IF WasPrefixed THEN (last.pre["PC"] + 1) % 65536 ELSE last.pre["PC"]
DecodedByte == Peek(last.premem, DecodedAddress)
DecodedTable == IF WasPrefixed THEN prefixed ELSE opcodes

(* C15: a Step whose decoded byte has no entry in its dispatch table       *)
(* leaves the loop in Fault with that byte and the address it was fetched  *)
(* from, and every Step from Fault leaves the loop state, the registers    *)
(* and memory unchanged.                                                   *)
C15_FaultIsTerminal ==
    /\ (last.op = "Step" /\ last.prestate.name = "Running"
        /\ DecodedByte \notin DOMAIN DecodedTable) =>
          /\ last.err = ""
          /\ state.name = "Fault"
          /\ state.code = DecodedByte
          /\ state.address = DecodedAddress
    /\ (last.op = "Step" /\ last.prestate.name = "Fault") =>
          /\ last.err = ""
          /\ state = last.prestate
          /\ reg = last.pre
          /\ mem = last.premem

(* The loop ran ADD A,B at 0x80, faulted on 0xED at the next address and   *)
(* was stepped once more in Fault.                                         *)
C15_Witness ==
    /\ last.op = "Step" /\ last.n = 3
    /\ last.prestate.name = "Fault"
    /\ state.name = "Fault" /\ state.code = 237 /\ state.address = 257
    /\ state.cycles = 4

---------------------------------------------------------------------------
(* The carry out of the low width bits of a + b + cin.                     *)
CarryOutOf(width, a, b, cin) == (a % width) + (b % width) + cin > width - 1

(* F without its H bit.                                                    *)
WithoutH(f) == f - HALFC_MASK * ((f \div HALFC_MASK) % 2)

(* C16: half_carry sets H (bit 5 of F) iff (a & 0xF) + (b & 0xF) + cin     *)
(* exceeds 0xF in 8-bit mode, iff (a & 0xFFF) + (b & 0xFFF) + cin exceeds  *)
(* 0xFFF in 16-bit mode, and changes no other bit of F; ADD and ADC leave  *)
(* H as half_carry of their operands.                                      *)
C16_HalfCarryOutOfLowNibble ==
    /\ last.op = "half_carry" =>
          /\ last.err = ""
          /\ FlagSet(reg, HALFC_MASK)
             <=> CarryOutOf(IF last.w THEN 4096 ELSE 16, last.a, last.b, last.c)
          /\ WithoutH(reg["F"]) = WithoutH(last.pre["F"])
    /\ (last.op = "ADD" /\ last.err = "") =>
          (FlagSet(reg, HALFC_MASK)
           <=> CarryOutOf(16, last.pre["A"], ValueOf(last.pre, last.k1), 0))
    /\ (last.op = "ADC" /\ last.err = "") =>
          (FlagSet(reg, HALFC_MASK)
           <=> CarryOutOf(16, last.pre["A"], ValueOf(last.pre, last.k1),
                          IF FlagSet(last.pre, CARRY_MASK) THEN 1 ELSE 0))
    /\ (last.op = "ADD16" /\ last.err = "") =>
          (FlagSet(reg, HALFC_MASK)
           <=> CarryOutOf(4096, ValueOf(last.pre, last.k1),
                          ValueOf(last.pre, last.k2), 0))

(* A = 0x0F, ADD A,A has left H set.                                       *)
C16_Witness ==
    /\ last.op = "ADD" /\ last.k1 = Key("A") /\ last.pre["A"] = 15
    /\ last.err = "" /\ FlagSet(reg, HALFC_MASK)

---------------------------------------------------------------------------
(* C17: one get of the r8 operand completes without error, returns the     *)
(* byte b at PC when b < 0x80 and b - 256 when b >= 0x80, and leaves PC    *)
(* advanced by exactly one.                                                *)
C17_SignedImmediate ==
    (last.op = "get" /\ last.k1 = Key("r8")) =>
        /\ last.err = ""
        /\ last.ret = IntV(Signed(ByteAtPC))
        /\ Advanced("PC", 1)

---------------------------------------------------------------------------
(* The registers of the pair the 16-bit ADD that ran last stored into.     *)
Destination == {HighOf(last.k1.name), LowOf(last.k1.name)}

(* F without its H and C bits.                                             *)
WithoutHC(f) ==
    f - HALFC_MASK * ((f \div HALFC_MASK) % 2)
      - CARRY_MASK * ((f \div CARRY_MASK) % 2)

(* C18 as stated: the two-operand ADD stores (val1 + val2) mod 0x10000     *)
(* into the first operand and leaves the Z flag, register A and every      *)
(* register outside the destination pair unchanged; the one-operand ADD    *)
(* changes only A and F.                                                   *)
C18_AddFrameAsStated ==
    /\ last.op = "ADD16" =>
          /\ last.err = ""
          /\ ValueOf(reg, last.k1) = Sum16 % 65536
          /\ FlagSet(reg, ZERO_MASK) <=> FlagSet(last.pre, ZERO_MASK)
          /\ reg["A"] = last.pre["A"]
          /\ \A rid \in DOMAIN reg \ Destination : reg[rid] = last.pre[rid]
    /\ last.op = "ADD" =>
          /\ last.err = ""
          /\ \A rid \in DOMAIN reg \ {"A", "F"} : reg[rid] = last.pre[rid]

(* C18, amended: the two-operand ADD stores (val1 + val2) mod 0x10000 into *)
(* the first operand, leaves the Z flag, register A and every register     *)
(* outside the destination pair other than F unchanged, and changes in F   *)
(* only the H and C bits; the one-operand ADD changes only A and F.        *)
C18_AddFrame ==
    /\ last.op = "ADD16" =>
          /\ last.err = ""
          /\ ValueOf(reg, last.k1) = Sum16 % 65536
          /\ FlagSet(reg, ZERO_MASK) <=> FlagSet(last.pre, ZERO_MASK)
          /\ reg["A"] = last.pre["A"]
          /\ \A rid \in DOMAIN reg \ (Destination \cup {"F"}) :
                reg[rid] = last.pre[rid]
          /\ WithoutHC(reg["F"]) = WithoutHC(last.pre["F"])
          /\ mem = last.premem
    /\ last.op = "ADD" =>
          /\ last.err = ""
          /\ \A rid \in DOMAIN reg \ {"A", "F"} : reg[rid] = last.pre[rid]
          /\ mem = last.premem

(* HL = 0xFFFF, ADD HL,BC with BC = 0x0001 and Z set: HL is 0x0000, Z is   *)
(* still set and F has changed.                                            *)
C18_Witness ==
    /\ last.op = "ADD16" /\ last.k2 = Key("BC") /\ last.err = ""
    /\ PairValue(last.pre, "HL") = 65535 /\ PairValue(last.pre, "BC") = 1
    /\ PairValue(reg, "HL") = 0
    /\ FlagSet(last.pre, ZERO_MASK) /\ FlagSet(reg, ZERO_MASK)
    /\ reg["F"] # last.pre["F"]

---------------------------------------------------------------------------
(* C19: reading the value of a memory-indirect SplitRegisterMap built with *)
(* increment or decrement returns the memory byte at the pair's address    *)
(* before the adjustment, leaves every memory cell unchanged and leaves    *)
(* the pair one higher (increment) or one lower (decrement).               *)
C19_SplitMapNudgedRead ==
    (last.op = "SplitRegisterMap.get" /\ ~last.k1.immediate
     /\ (last.k1.increment \/ last.k1.decrement)) =>
        /\ last.err = ""
        /\ last.ret
           = IntV(Peek(last.premem, PairValue(last.pre, last.k1.name)))
        /\ mem = last.premem
        /\ PairMoved(last.k1.name, IF last.k1.increment THEN 1 ELSE -1)

=============================================================================
